---- MODULE Spec2Model ----
(***************************************************************************)
(* Model of the MEXC portfolio tracker (src/src/index.ts, the revision at  *)
(* lines 244-539): the entry point (main IIFE -> run -> handleError) and   *)
(* the exported autoTrimPortfolio with getMarketRule, roundToStepSize and  *)
(* createMarketSellOrder.                                                  *)
(*                                                                         *)
(* Numbers.  A JavaScript number is a record [nan, v]: NaN (also what      *)
(* arithmetic makes of undefined) or an integer v.  Coin amounts and sell  *)
(* quantities are counted in 1/QtyScale of a coin, prices in whole USD, so *)
(* values (amount * price) are in 1/QtyScale of a USD.  A quotient such as *)
(* excessUSD / coin.price is kept exact as [num, den].  toFixed is the     *)
(* round-half-up of the exact value; on binary doubles it differs only for *)
(* decimal ties that have no exact binary form.                            *)
(*                                                                         *)
(* Strings that matter for redaction are sequences of tokens.              *)
(*                                                                         *)
(* Time.  A timestamp is a reading of the local clock plus a number of ms; *)
(* the exchange's clock is skew ms ahead of the local one.                 *)
(*                                                                         *)
(* One behaviour follows one entry: the main IIFE (FetchBalances first),   *)
(* or a call of the exported autoTrimPortfolio, which run() itself does    *)
(* not make (index.ts:521).  A step is the code between two awaits, with   *)
(* the outcome of the awaited request chosen by the environment.  log()    *)
(* either appends its line or throws (fs.appendFileSync fails), in which   *)
(* case nothing of the line is written.                                    *)
(***************************************************************************)
EXTENDS Integers, Sequences, FiniteSets, TLC

VARIABLES
    pc,              \* position of the running async function
    envBase,         \* process.env.ASSET_BASE_VALUE: <<>> unset, <<n>> set
    skew,            \* exchange server time minus local time, in ms
    COINS,           \* configured asset list (PORTFOLIOASSETS)
    accountQuery,    \* signed GETs of /api/v3/account issued, in order
    balances,        \* run(): result of fetchBalances, asset -> number
    coins,           \* Coin[] built by run() / passed to autoTrimPortfolio
    total,           \* run(): let total
    report,          \* run(): const report
    ti,              \* autoTrimPortfolio: index of the coin of the for-of loop
    market,          \* getMarketRule: const market, the exchangeInfo entry found
    marketRule,      \* autoTrimPortfolio: const marketRule of this iteration
    quantityToSell,  \* autoTrimPortfolio: const quantityToSell of this iteration
    orders,          \* order POSTs issued to the exchange, in order
    logFile,         \* lines appended by log()
    sent,            \* messages delivered by sendTelegramMessage
    err,             \* the value thrown and not yet caught / being handled
    exitCode,        \* process.exitCode: <<>> unset, <<n>> set
    consoleErr       \* console.error output of the IIFE's inner catch

vars == <<pc, envBase, skew, COINS, accountQuery, balances, coins, total, report, ti, market, marketRule,
          quantityToSell, orders, logFile, sent, err, exitCode, consoleErr>>

\* ---------------------------------------------------------------- bounds
MaxCoins == 2

QtyScale == 10 * 10

\* ---------------------------------------------------------------- numbers
NaN == [nan |-> TRUE, v |-> 0]
Num(n) == [nan |-> FALSE, v |-> n]

JsMul(a, b) == IF a.nan \/ b.nan THEN NaN ELSE Num(a.v * b.v)
JsAdd(a, b) == IF a.nan \/ b.nan THEN NaN ELSE Num(a.v + b.v)
JsSub(a, b) == IF a.nan \/ b.nan THEN NaN ELSE Num(a.v - b.v)
JsGt(a, b) == ~a.nan /\ ~b.nan /\ a.v > b.v
JsGe(a, b) == ~a.nan /\ ~b.nan /\ a.v >= b.v

RECURSIVE Pow10(_)
Pow10(k) == IF k <= 0 THEN 1 ELSE 10 * Pow10(k - 1)

\* floor(log10(n / d)) for n, d > 0
RECURSIVE FloorLog10(_, _)
FloorLog10(n, d) ==
    IF n >= d
    THEN IF n >= 10 * d THEN 1 + FloorLog10(n, 10 * d) ELSE 0
    ELSE FloorLog10(10 * n, d) - 1

\* ---------------------------------------------------------------- config
AssetNames == <<"AVAX", "ICP", "ONDO">>
Pair(name) == <<name, "USDT">>

DefaultBaseValue == 0
EnvBaseValues == {<<>>, <<30000>>, <<50000>>}

\* mutant: the environment value is not read and the "0" default always applies
ASSET_BASE_VALUE_Unread == Num(DefaultBaseValue)

\* parseFloat(process.env.ASSET_BASE_VALUE || "0")
ASSET_BASE_VALUE ==
    IF envBase = <<>> THEN Num(DefaultBaseValue) ELSE Num(envBase[1])

\* ---------------------------------------------------------------- clocks
\* A timestamp is a reading of the local clock plus a number of ms.  The
\* exchange's clock is skew ms ahead of the local one for the whole run.
ServerSkews == {0, 250}

\* Date.now()
DateNow == [clock |-> "local", plus |-> 0]

\* ---------------------------------------------------------------- Coin
\* mutant: the getter returns the price, the amount is left out
totalvalue_PriceOnly(coin) == coin.price

\* get totalvalue() { return this.amount * this.price; }
totalvalue(coin) == JsMul(coin.amount, coin.price)

Prices == {NaN, Num(50), Num(80)}
\* <<amount, price>> of the coins a caller passes to autoTrimPortfolio
Holdings == {<<NaN, Num(80)>>, <<Num(500), Num(80)>>, <<Num(1000), Num(50)>>,
             <<Num(1000), Num(80)>>}

CoinAt(i, a, p) == [name |-> AssetNames[i], pair |-> Pair(AssetNames[i]),
                    amount |-> a, price |-> p]

\* ---------------------------------------------------------------- errors
Secrets == {"API_KEY", "API_SECRET", "VPN_IP", "BOT_TOKEN"}
Tokens == Secrets \cup {"txt"}

\* new Error(message): V8 fixes the stack's header, name + ": " + message,
\* when the error is constructed.  api: the endpoint of the failed request
\* (AxiosError.config.url), "none" for an error the program itself throws
MkError(name, message, api) ==
    [name |-> name, message |-> message,
     stack |-> <<name, ":">> \o message \o <<"at">>, api |-> api]

\* messages the HTTP layer's errors carry: free of secrets, one secret once,
\* one secret twice, two different secrets
Messages == {<<"txt", "<">>, <<"txt", "API_SECRET">>, <<"API_KEY", "txt", "API_KEY">>,
             <<"VPN_IP", "BOT_TOKEN">>}
\* every shape of message reaches handleError from the snapshot requests; the
\* other requests fail with a message free of secrets or with one secret
MessagesOf(api) ==
    IF api \in {"account", "ticker"}
    THEN Messages
    ELSE {<<"txt", "<">>, <<"txt", "API_SECRET">>}
AxiosErrors(api) == {MkError("AxiosError", m, api) : m \in MessagesOf(api)}

\* `${err}` of an Error: name + ": " + message
ErrToString(e) == <<e.name, ":">> \o e.message

\* what log() throws when fs.appendFileSync cannot write the log file
FsError == MkError("Error", <<"EACCES">>, "fs")

\* ---------------------------------------------------------------- getMarketRule
\* exchangeInfo for one symbol: <<>> when the symbol is not listed, else
\* <<baseSizePrecision>> as parseFloat reads it (NaN: missing or non-numeric)
DefaultPrecision == 1
BaseSizePrecisions == {NaN, Num(0), Num(1), Num(3), Num(100), Num(200)}
Markets == {<<>>} \cup {<<bp>> : bp \in BaseSizePrecisions}
NoMarket == <<NaN, NaN>>   \* outside getMarketRule

Truthy(x) == ~x.nan /\ x.v # 0

\* const basePrecision = parseFloat(market.baseSizePrecision) || 0.01
basePrecision(m) ==
    IF Truthy(m[1]) THEN m[1] ELSE Num(DefaultPrecision)

Thrown(e) == [threw |-> TRUE, error |-> e]
Returned(x) == [threw |-> FALSE, value |-> x]

\* the part of getMarketRule after the exchangeInfo response arrived
getMarketRule(symbol, m) ==
    IF m = <<>>
    THEN Thrown(MkError("Error", <<"Symbol not found", symbol[1]>>, "none"))
    ELSE LET bp == basePrecision(m) IN
         IF ~Truthy(bp) \/ bp.nan
         THEN Thrown(MkError("Error", <<"No usable precision", symbol[1]>>, "none"))
         ELSE Returned([symbol |-> symbol, stepSize |-> bp.v, minQty |-> bp.v])

\* ---------------------------------------------------------------- roundToStepSize
\* Number.prototype.toFixed(digits) of q = num/den >= 0, in 1/QtyScale:
\* RangeError unless 0 <= digits <= 100, else the nearest multiple of
\* 10^-digits, the larger one on a tie
toFixed(q, digits) ==
    IF digits < 0 \/ digits > 100
    THEN Thrown(MkError("RangeError", <<"toFixed() digits">>, "none"))
    ELSE LET unit == QtyScale \div Pow10(digits)   \* 10^-digits in 1/QtyScale
             n == (2 * q.num + unit * q.den) \div (2 * unit * q.den)
         IN  Returned(n * unit)

roundToStepSize(quantity, stepSize) ==
    LET precision == FloorLog10(QtyScale, stepSize)
    IN  toFixed(quantity, precision)

\* ---------------------------------------------------------------- state
NoRule == [symbol |-> <<>>, stepSize |-> 0, minQty |-> 0]
NoErr == <<>>

\* PORTFOLIOASSETS: the first n asset names
CoinNames == {SubSeq(AssetNames, 1, n) : n \in 1..MaxCoins}

\* the Coin[] a caller can build for the configured names
CoinLists(names) ==
    {[i \in 1..Len(names) |-> CoinAt(i, f[i][1], f[i][2])] :
        f \in [1..Len(names) -> Holdings]}

Init ==
    /\ pc = "idle"
    /\ envBase \in EnvBaseValues
    /\ skew \in ServerSkews
    /\ COINS \in CoinNames
    /\ accountQuery = <<>>
    /\ balances = <<>>
    /\ coins = <<>>
    /\ total = Num(0)
    /\ report = <<>>
    /\ ti = 0
    /\ market = NoMarket
    /\ marketRule = NoRule
    /\ quantityToSell = 0
    /\ orders = <<>>
    /\ logFile = <<>>
    /\ sent = <<>>
    /\ err = NoErr
    /\ exitCode = <<>>
    /\ consoleErr = <<>>

\* ---------------------------------------------------------------- autoTrimPortfolio
excessUSD(coin) == JsSub(totalvalue(coin), ASSET_BASE_VALUE)

mainVars == <<COINS, accountQuery, balances, total, report, exitCode, consoleErr>>

\* a caller of the exported function passes it a Coin[]
CallAutoTrimPortfolio ==
    /\ pc = "idle"
    /\ \E cs \in CoinLists(COINS) : coins' = cs
    /\ ti' = 1
    /\ pc' = "trim_loop"
    /\ UNCHANGED <<envBase, skew, market, marketRule, quantityToSell, orders, logFile,
                   sent, err>>
    /\ UNCHANGED mainVars

\* for (const coin of coins) { if (totalvalue > ASSET_BASE_VALUE) ...
\* up to await getMarketRule, or the end of the loop
TrimEvaluate ==
    /\ pc = "trim_loop"
    /\ IF ti > Len(coins)
       THEN pc' = "trim_done" /\ ti' = ti
       ELSE IF JsGt(totalvalue(coins[ti]), ASSET_BASE_VALUE)
            THEN pc' = "exchange_info" /\ ti' = ti
            ELSE pc' = "trim_loop" /\ ti' = ti + 1
    /\ UNCHANGED <<envBase, skew, coins, market, marketRule, quantityToSell, orders,
                   logFile, sent, err>>
    /\ UNCHANGED mainVars

\* getMarketRule: await axios.get(exchangeInfo); symbols.find(...)
ExchangeInfo ==
    /\ pc = "exchange_info"
    /\ \/ \E e \in AxiosErrors("exchangeInfo") :
             /\ err' = e
             /\ pc' = "trim_failed"
             /\ market' = market
       \/ \E m \in Markets :
             /\ market' = m
             /\ pc' = "market_rule"
             /\ err' = err
    /\ UNCHANGED <<envBase, skew, coins, ti, marketRule, quantityToSell, orders, logFile,
                   sent>>
    /\ UNCHANGED mainVars

\* const quantityToSell = roundToStepSize(excessUSD / coin.price, stepSize)
sellQuantity(coin, stepSize) ==
    roundToStepSize([num |-> excessUSD(coin).v, den |-> coin.price.v], stepSize)

\* the rest of getMarketRule, then autoTrimPortfolio from the rule it returns
\* up to await sendTelegramMessage (or on to the next coin)
TrimSize ==
    /\ pc = "market_rule"
    /\ market' = NoMarket
    /\ LET coin == coins[ti]
           r == getMarketRule(coin.pair, market)
           q == sellQuantity(coin, r.value.stepSize)
       IN  IF r.threw
           THEN /\ err' = r.error
                /\ pc' = "trim_failed"
                /\ UNCHANGED <<ti, marketRule, quantityToSell, logFile>>
           ELSE /\ marketRule' = r.value
                /\ IF q.threw
                   THEN /\ err' = q.error
                        /\ pc' = "trim_failed"
                        /\ UNCHANGED <<ti, quantityToSell, logFile>>
                   ELSE /\ quantityToSell' = q.value
                        /\ IF q.value > 0
                           THEN /\ ti' = ti
                                /\ \/ /\ logFile' = Append(logFile,
                                          [kind |-> "selling", text |-> <<>>,
                                           pair |-> coin.pair, quantity |-> q.value,
                                           excess |-> excessUSD(coin),
                                           base |-> ASSET_BASE_VALUE])
                                      /\ pc' = "trim_announce"
                                      /\ err' = err
                                   \/ /\ logFile' = logFile   \* log() throws
                                      /\ pc' = "trim_failed"
                                      /\ err' = FsError
                           ELSE /\ logFile' = logFile
                                /\ pc' = "trim_loop"
                                /\ ti' = ti + 1
                                /\ err' = err
    /\ UNCHANGED <<envBase, skew, coins, orders, sent>>
    /\ UNCHANGED mainVars

\* await sendTelegramMessage(alertMessage), then createMarketSellOrder up to
\* its await axios.post
TrimAnnounce ==
    /\ pc = "trim_announce"
    /\ \/ /\ sent' = Append(sent, [kind |-> "selling", text |-> <<>>,
                                   pair |-> coins[ti].pair])
          /\ pc' = "order_post"
          /\ err' = err
       \/ \E e \in AxiosErrors("telegram") :
             /\ err' = e
             /\ pc' = "trim_failed"
             /\ sent' = sent
    /\ UNCHANGED <<envBase, skew, coins, ti, market, marketRule, quantityToSell, orders,
                   logFile>>
    /\ UNCHANGED mainVars

\* ---------------------------------------------------------------- createMarketSellOrder
OrderLine(kind, text) == [kind |-> kind, text |-> text, pair |-> coins[ti].pair]

\* catch (err) { log(failed) ...: up to await sendTelegramMessage, or out of
\* createMarketSellOrder when this log() throws too
OrderCatch(e) ==
    \/ /\ err' = e
       /\ logFile' = Append(logFile, OrderLine("orderFailed", ErrToString(e)))
       /\ pc' = "order_fail_notify"
    \/ /\ err' = FsError
       /\ logFile' = logFile
       /\ pc' = "trim_failed"

\* try { await axios.post(...); log(ok) ... } catch (err) { log(failed) ...
OrderPost ==
    /\ pc = "order_post"
    /\ orders' = Append(orders, [symbol |-> coins[ti].pair, side |-> "SELL",
                                 type |-> "MARKET", quantity |-> quantityToSell,
                                 timestamp |-> DateNow])
    /\ \/ /\ logFile' = Append(logFile, OrderLine("orderPlaced", <<>>))
          /\ pc' = "order_ok_notify"
          /\ err' = err
       \/ OrderCatch(FsError)    \* log(placed) throws inside the try
       \/ \E e \in AxiosErrors("order") : OrderCatch(e)
    /\ UNCHANGED <<envBase, skew, coins, ti, market, marketRule, quantityToSell, sent>>
    /\ UNCHANGED mainVars

\* try { ...; await sendTelegramMessage(alertMessage); } catch (err) { log(failed) ...
OrderOkNotify ==
    /\ pc = "order_ok_notify"
    /\ \/ /\ sent' = Append(sent, OrderLine("orderPlaced", <<>>))
          /\ pc' = "trim_loop"
          /\ ti' = ti + 1
          /\ UNCHANGED <<err, logFile>>
       \/ \E e \in AxiosErrors("telegram") :
             /\ OrderCatch(e)
             /\ UNCHANGED <<sent, ti>>
    /\ UNCHANGED <<envBase, skew, coins, market, marketRule, quantityToSell, orders>>
    /\ UNCHANGED mainVars

\* catch (err) { ...; await sendTelegramMessage(alertMessage); }
OrderFailNotify ==
    /\ pc = "order_fail_notify"
    /\ \/ /\ sent' = Append(sent, OrderLine("orderFailed", ErrToString(err)))
          /\ pc' = "trim_loop"
          /\ ti' = ti + 1
          /\ err' = NoErr
       \/ \E e \in AxiosErrors("telegram") :
             /\ err' = e
             /\ pc' = "trim_failed"
             /\ UNCHANGED <<sent, ti>>
    /\ UNCHANGED <<envBase, skew, coins, market, marketRule, quantityToSell, orders,
                   logFile>>
    /\ UNCHANGED mainVars

\* ---------------------------------------------------------------- handleError
\* String.prototype.replace(pattern: string, replacement): the first
\* occurrence only
RECURSIVE replace(_, _, _)
replace(text, pattern, replacement) ==
    IF text = <<>> THEN <<>>
    ELSE IF Head(text) = pattern THEN <<replacement>> \o Tail(text)
    ELSE <<Head(text)>> \o replace(Tail(text), pattern, replacement)

redactMessage(message) ==
    replace(replace(replace(replace(message,
        "API_KEY", "[REDACTED_API_KEY]"),
        "API_SECRET", "[REDACTED_API_SECRET]"),
        "VPN_IP", "[REDACTED_VPN_IP]"),
        "BOT_TOKEN", "[REDACTED_BOT_TOKEN]")

escapeHtml(text) ==
    [i \in DOMAIN text |->
        IF text[i] = "&" THEN "&amp;"
        ELSE IF text[i] = "<" THEN "&lt;"
        ELSE IF text[i] = ">" THEN "&gt;"
        ELSE text[i]]

\* the branch for err instanceof Error; the timestamp is left out
errorToTelegramMessage(e) ==
    <<"Error Alert", "Type:">> \o escapeHtml(<<e.name>>)
        \o <<"Message:">> \o escapeHtml(e.message)
        \o <<"Stack Trace:">> \o escapeHtml(e.stack)

\* mutant: the inner catch swallows the secondary error
ConsoleError_Silent(e) == consoleErr' = consoleErr

\* catch (secondaryErr) { console.error("... unreported error: ", secondaryErr) }
ConsoleError(e) == consoleErr' = Append(consoleErr, e)

\* mutant: the catch block leaves process.exitCode as it is
CatchExit_KeepsCode ==
    /\ exitCode' = exitCode
    /\ pc' = "exited"

\* the end of the IIFE's catch block: process.exitCode = 1
CatchExit ==
    /\ exitCode' = <<1>>
    /\ pc' = "exited"

\* try { await handleError(err) } catch (secondaryErr) { ... }, then the end
\* of the IIFE's catch block
HandleError ==
    /\ pc = "handle_error"
    /\ LET redacted == [err EXCEPT !.message = redactMessage(err.message)] IN
       /\ err' = redacted
       /\ \/ sent' = Append(sent, [kind |-> "error",
                                   text |-> errorToTelegramMessage(redacted)])
          \/ sent' = sent    \* try { await sendTelegramMessage(...) } catch { }
       /\ \/ /\ logFile' = Append(logFile, [kind |-> "error", text |-> redacted.stack])
             /\ consoleErr' = consoleErr
          \/ /\ logFile' = logFile    \* log() throws out of handleError
             /\ ConsoleError(FsError)
    /\ CatchExit
    /\ UNCHANGED <<envBase, skew, COINS, accountQuery, balances, coins, total, report,
                   ti, market, marketRule, quantityToSell, orders>>

\* ---------------------------------------------------------------- run
EnvAlertThreshold == 100000
Frees == {Num(500), Num(1000)}
\* data.balances of the account response: asset -> parseFloat(asset.free)
AccountAssets == {AssetNames[i] : i \in 1..MaxCoins} \cup {"BTC"}
AccountResponses == UNION {[S -> Frees] : S \in SUBSET AccountAssets}

Configured == {COINS[i] : i \in 1..Len(COINS)}

\* for (const asset of data.balances) if (COINS.includes(asset.asset)) ...
fetchBalances(data) == [a \in DOMAIN data \cap Configured |-> data[a]]

\* balances[name]: undefined for a missing key, NaN in arithmetic
BalanceOf(name) == IF name \in DOMAIN balances THEN balances[name] ELSE NaN

trimVars == <<ti, market, marketRule, quantityToSell, orders>>

\* the IIFE calls run(): const balances = await fetchBalances()
FetchBalances ==
    /\ pc = "idle"
    /\ accountQuery' = Append(accountQuery, [timestamp |-> DateNow])
    /\ \/ \E e \in AxiosErrors("account") :
             /\ err' = e
             /\ pc' = "handle_error"
             /\ balances' = balances
       \/ \E data \in AccountResponses :
             /\ balances' = fetchBalances(data)
             /\ pc' = "fetch_price"
             /\ err' = err
    /\ UNCHANGED <<envBase, skew, COINS, coins, total, report, logFile, sent, exitCode,
                   consoleErr>>
    /\ UNCHANGED trimVars

\* mutant: the assets are walked from the end of the list
CurrentName_Reversed == COINS[Len(COINS) - Len(coins)]

\* for (const name of COINS): the name of the iteration that follows the
\* coins already built
CurrentName == COINS[Len(coins) + 1]

ReportLine(coin) ==
    [kind |-> "asset", name |-> coin.name, amount |-> coin.amount,
     price |-> coin.price, value |-> totalvalue(coin)]

\* const price = await fetchPrice(name); ... report.push(...); after the last
\* asset: report.push(Total); log(report)
FetchPrice ==
    /\ pc = "fetch_price"
    /\ LET name == CurrentName IN
       \/ \E e \in AxiosErrors("ticker") :
             /\ err' = e
             /\ pc' = "handle_error"
             /\ UNCHANGED <<coins, total, report, logFile>>
       \/ \E price \in Prices :
             LET coin == [name |-> name, pair |-> Pair(name),
                          amount |-> BalanceOf(name), price |-> price]
                 sum == JsAdd(total, totalvalue(coin))
                 lines == Append(report, ReportLine(coin))
             IN  /\ coins' = Append(coins, coin)
                 /\ total' = sum
                 /\ IF Len(coins) + 1 < Len(COINS)
                    THEN /\ report' = lines
                         /\ logFile' = logFile
                         /\ pc' = "fetch_price"
                         /\ err' = err
                    ELSE /\ report' = Append(lines, [kind |-> "total", value |-> sum])
                         /\ \/ /\ logFile' = Append(logFile,
                                      [kind |-> "report", text |-> <<>>, lines |-> report'])
                               /\ pc' = "send_report"
                               /\ err' = err
                            \/ /\ logFile' = logFile    \* log(report) throws
                               /\ pc' = "handle_error"
                               /\ err' = FsError
    /\ UNCHANGED <<envBase, skew, COINS, accountQuery, balances, sent, exitCode,
                   consoleErr>>
    /\ UNCHANGED trimVars

\* run() returned: process.exitCode = 0; log(completed), which lands in the
\* IIFE's catch block when it throws
Completed(lf) ==
    /\ exitCode' = <<0>>
    /\ \/ /\ logFile' = Append(lf, [kind |-> "completed", text |-> <<>>])
          /\ pc' = "exited"
          /\ err' = err
       \/ /\ logFile' = lf
          /\ pc' = "handle_error"
          /\ err' = FsError

\* await sendTelegramMessage(report.join('\n')); the threshold check
SendReport ==
    /\ pc = "send_report"
    /\ \/ \E e \in AxiosErrors("telegram") :
             /\ err' = e
             /\ pc' = "handle_error"
             /\ UNCHANGED <<sent, logFile, exitCode>>
       \/ /\ sent' = Append(sent, [kind |-> "report", text |-> <<>>, lines |-> report])
          /\ IF JsGe(total, Num(EnvAlertThreshold))
             THEN /\ exitCode' = exitCode
                  /\ \/ /\ logFile' = Append(logFile, [kind |-> "alert", text |-> <<>>])
                        /\ pc' = "send_alert"
                        /\ err' = err
                     \/ /\ logFile' = logFile    \* log(alert) throws
                        /\ pc' = "handle_error"
                        /\ err' = FsError
             ELSE Completed(logFile)
    /\ UNCHANGED <<envBase, skew, COINS, accountQuery, balances, coins, total, report,
                   consoleErr>>
    /\ UNCHANGED trimVars

\* await sendTelegramMessage(Portfolio Alert); // autoTrimPortfolio(coins);
SendAlert ==
    /\ pc = "send_alert"
    /\ \/ \E e \in AxiosErrors("telegram") :
             /\ err' = e
             /\ pc' = "handle_error"
             /\ UNCHANGED <<sent, logFile, exitCode>>
       \/ /\ sent' = Append(sent, [kind |-> "alert", text |-> <<>>])
          /\ Completed(logFile)
    /\ UNCHANGED <<envBase, skew, COINS, accountQuery, balances, coins, total, report,
                   consoleErr>>
    /\ UNCHANGED trimVars

MainNext ==
    \/ FetchBalances
    \/ FetchPrice
    \/ SendReport
    \/ SendAlert
    \/ HandleError

TrimNext ==
    \/ CallAutoTrimPortfolio
    \/ TrimEvaluate
    \/ ExchangeInfo
    \/ TrimSize
    \/ TrimAnnounce
    \/ OrderPost
    \/ OrderOkNotify
    \/ OrderFailNotify

Next == MainNext \/ TrimNext

Spec == Init /\ [][Next]_vars

\* ================================================================ properties
Last(q) == q[Len(q)]

\* the POST for coins[ti] has been issued and its outcome is being reported
Submitted == pc \in {"order_ok_notify", "order_fail_notify"}

\* floor(((value - baseValue) / unitPrice) / stepSize) * stepSize
FloorToStep(coin, stepSize) ==
    ((totalvalue(coin).v - ASSET_BASE_VALUE.v) \div (coin.price.v * stepSize)) * stepSize

\* C1: every submitted sell quantity is the raw quantity rounded down to the
\* lot step: floor(((value - baseValue) / price) / stepSize) * stepSize, hence
\* never more than (value - baseValue) / price.
C1_SellQuantityRoundedDown ==
    Submitted =>
        /\ Last(orders).quantity = FloorToStep(coins[ti], marketRule.stepSize)
        /\ Last(orders).quantity * coins[ti].price.v
               <= totalvalue(coins[ti]).v - ASSET_BASE_VALUE.v

\* C2: every quantity passed to createMarketSellOrder is a non-negative
\* integer multiple of the stepSize getMarketRule returned for the pair, and
\* is sized from the excess, not from the amount held.
C2_QuantityMultipleOfStep ==
    Submitted =>
        /\ Last(orders).quantity >= 0
        /\ Last(orders).quantity % marketRule.stepSize = 0
        /\ Last(orders).quantity =
               sellQuantity(coins[ti], marketRule.stepSize).value

\* the base value the environment configures (0 when it configures none)
ConfiguredBase == IF envBase = <<>> THEN Num(DefaultBaseValue) ELSE Num(envBase[1])

HoldingOf(symbol) == CHOOSE j \in DOMAIN coins : coins[j].pair = symbol

\* C3: no sell order is ever submitted for a holding whose value
\* (amount * price) is at or below the configured base value; a snapshot with
\* every holding at or below the base value yields no order at all.
C3_NoOrderAtOrBelowBase ==
    \A k \in DOMAIN orders :
        LET coin == coins[HoldingOf(orders[k].symbol)] IN
        JsGt(JsMul(coin.amount, coin.price), ConfiguredBase)

\* autoTrimPortfolio ran to its end over a list holding a coin at or below the
\* base value, which got no order, and a coin above it, which got one
C3_Witness ==
    /\ pc = "trim_done"
    /\ orders # <<>>
    /\ \E j \in DOMAIN coins :
          /\ ~coins[j].amount.nan
          /\ ~JsGt(totalvalue(coins[j]), ConfiguredBase)
          /\ \A k \in DOMAIN orders : orders[k].symbol # coins[j].pair

\* C4: whatever happens inside createMarketSellOrder for a holding (the POST
\* fails, reporting the failure fails), autoTrimPortfolio does not end in
\* failure there: it goes on to the holdings after it.
C4_OrderFailureNeverAbortsTrim ==
    pc = "trim_failed" =>
        ~(orders # <<>> /\ Last(orders).symbol = coins[ti].pair)

ThrownByGetMarketRule(e) ==
    \/ e.api = "exchangeInfo"
    \/ e.message[1] \in {"Symbol not found", "No usable precision"}

\* C5: a getMarketRule failure for one holding does not end
\* autoTrimPortfolio: the remaining holdings are still processed.
C5_RuleFailureNeverAbortsTrim ==
    pc = "trim_failed" => ~ThrownByGetMarketRule(err)

\* C6: a sendTelegramMessage failure never propagates: it neither fails
\* autoTrimPortfolio nor reaches the top-level handler, and the run never ends
\* with exit code 1 because of it.
C6_NotifierFailureNeverPropagates ==
    /\ pc \in {"trim_failed", "handle_error"} => err.api # "telegram"
    /\ (pc = "exited" /\ exitCode = <<1>>) => err.api # "telegram"

\* C7: getMarketRule never substitutes a guessed precision: with a listed
\* pair whose baseSizePrecision is missing, non-numeric or zero it fails with
\* "No usable precision", and with an unlisted pair with "Symbol not found".
C7_NoGuessedPrecision ==
    [][(pc = "market_rule" /\ (market = <<>> \/ ~Truthy(market[1]))) =>
          /\ pc' = "trim_failed"
          /\ err'.message[1] =
                 IF market = <<>> THEN "Symbol not found" ELSE "No usable precision"
      ]_vars

MainPcs == {"fetch_price", "send_report", "send_alert", "handle_error", "exited"}

RECURSIVE SumValues(_)
SumValues(cs) ==
    IF cs = <<>> THEN 0
    ELSE (IF Head(cs).name \in DOMAIN balances THEN totalvalue(Head(cs)).v ELSE 0)
         + SumValues(Tail(cs))

\* C8: a configured asset missing from the account response counts as a zero
\* balance: amount 0, value 0, and the total is the sum over the assets that
\* are present; fetchBalances returns configured assets only.
C8_AbsentAssetIsZero ==
    pc \in MainPcs =>
        /\ DOMAIN balances \subseteq Configured
        /\ \A j \in DOMAIN coins :
              coins[j].name \notin DOMAIN balances =>
                  coins[j].amount = Num(0) /\ totalvalue(coins[j]) = Num(0)
        /\ (\A j \in DOMAIN coins : ~coins[j].price.nan) => total = Num(SumValues(coins))

ReportsIn(q) == {k \in DOMAIN q : q[k].kind = "report"}

\* C9: the snapshot build fails fast: a failed balance or price fetch, or a
\* missing or unparseable price, makes run() throw before anything is
\* reported, so no logged or notified report holds an invalid price or total.
C9_NoReportOnBadPrice ==
    /\ \A k \in ReportsIn(logFile) :
          \A n \in DOMAIN logFile[k].lines :
              logFile[k].lines[n].kind = "asset" => ~logFile[k].lines[n].price.nan
    /\ \A k \in ReportsIn(sent) :
          \A n \in DOMAIN sent[k].lines :
              sent[k].lines[n].kind = "asset" => ~sent[k].lines[n].price.nan

HasSecret(text) == \E i \in DOMAIN text : text[i] \in Secrets

\* C10: once handleError has run, nothing sent to the notifier or written to
\* the log holds the API key, the API secret, the VPN IP or the bot token.
C10_NoSecretAfterHandleError ==
    (pc = "exited" /\ exitCode = <<1>>) =>
        /\ \A k \in DOMAIN logFile : ~HasSecret(logFile[k].text)
        /\ \A k \in DOMAIN sent : ~HasSecret(sent[k].text)

Logged(kind) == \E k \in DOMAIN logFile : logFile[k].kind = kind
Notified(kind) == \E k \in DOMAIN sent : sent[k].kind = kind

\* C11: the entry point ends with exit code 0 exactly when nothing was thrown
\* up to its top level, and with exit code 1 after any top-level failure, also
\* when reporting the error fails; the "completed successfully" line is never
\* in the log of a run that ends with a nonzero exit code.
C11_ExitCodeReflectsOutcome ==
    pc = "exited" =>
        /\ exitCode = IF err = NoErr THEN <<0>> ELSE <<1>>
        /\ exitCode # <<0>> => ~Logged("completed")

\* a run of the IIFE whose log(completed) threw after process.exitCode = 0 was
\* set, and whose error report then failed too
C11_Witness ==
    /\ pc = "exited"
    /\ exitCode = <<1>>
    /\ err = FsError
    /\ Logged("report")
    /\ ~JsGe(total, Num(EnvAlertThreshold))
    /\ consoleErr # <<>>

C13_ThresholdDrivesTrim ==
    (pc = "exited" /\ err = NoErr) =>
        IF JsGe(total, Num(EnvAlertThreshold))
        THEN Logged("alert") /\ Notified("alert") /\ ti >= 1
        ELSE ~Notified("alert") /\ orders = <<>>

\* local time plus the offset a server-time fetch would have measured
ServerNow == [clock |-> "local", plus |-> skew]

\* C14: every signed request of a run, the balance query and each order
\* submission, carries as its timestamp the local time plus the one offset
\* (exchange server time minus local time) fetched before the first of them.
C14_SignedRequestsUseServerOffset ==
    /\ \A k \in DOMAIN accountQuery : accountQuery[k].timestamp = ServerNow
    /\ \A k \in DOMAIN orders : orders[k].timestamp = ServerNow

TrimKinds == {"selling", "orderPlaced", "orderFailed"}
OutcomeKinds == {"orderPlaced", "orderFailed"}

\* the holding each log line or notification of q is about, 0 for the lines
\* that are about none
HoldingsOf(q) ==
    [k \in DOMAIN q |->
        IF q[k].kind \in TrimKinds THEN HoldingOf(q[k].pair) ELSE 0]

\* q mentions no holding after the current one, and none after the holding
\* of its newest line: q only grows, so its lines are in list order
InListOrder(q) ==
    LET h == HoldingsOf(q) IN
    \A k \in DOMAIN h : h[k] <= ti /\ (h[Len(q)] > 0 => h[k] <= h[Len(q)])

HasOutcome(q, symbol) ==
    \E k \in DOMAIN q : q[k].kind \in OutcomeKinds /\ q[k].pair = symbol

\* C15: everything is sequential and in the order of the configured assets:
\* the coins are priced one by one in list order, orders are submitted in that
\* order, and the order of a holding has its outcome logged and notified
\* before anything is logged, notified or submitted for a later holding.
C15_SequentialInListOrder ==
    /\ \A j \in DOMAIN coins : coins[j].name = COINS[j]
    /\ InListOrder(logFile)
    /\ InListOrder(sent)
    /\ LET h == [k \in DOMAIN orders |-> HoldingOf(orders[k].symbol)] IN
       /\ \A a, b \in DOMAIN h : a < b => h[a] < h[b]
       /\ \A k \in DOMAIN h :
             /\ h[k] <= ti
             /\ h[k] < ti =>
                    /\ HasOutcome(logFile, orders[k].symbol)
                    /\ HasOutcome(sent, orders[k].symbol)

\* autoTrimPortfolio went through two holdings with an order for each, one
\* placed and one failed
C15_Witness ==
    /\ pc = "trim_done"
    /\ Len(orders) >= 2
    /\ Logged("orderPlaced")
    /\ Logged("orderFailed")

\* amount * price and the sum of values as numbers, NaN as soon as an operand
\* is NaN
ProductOf(amount, price) ==
    IF amount.nan \/ price.nan THEN NaN ELSE Num(amount.v * price.v)

RECURSIVE PlainSum(_, _)
PlainSum(lines, n) == IF n = 0 THEN 0 ELSE lines[n].value.v + PlainSum(lines, n - 1)

SumOf(lines, n) ==
    IF \E j \in 1..n : lines[j].value.nan THEN NaN ELSE Num(PlainSum(lines, n))

\* one line per configured asset, in list order, then the total line
ReportOk(lines) ==
    LET n == Len(COINS) IN
    /\ Len(lines) = n + 1
    /\ \A j \in 1..n :
          /\ lines[j].kind = "asset"
          /\ lines[j].name = COINS[j]
          /\ lines[j].amount = coins[j].amount
          /\ lines[j].price = coins[j].price
          /\ lines[j].value = ProductOf(lines[j].amount, lines[j].price)
    /\ lines[n + 1].kind = "total"
    /\ lines[n + 1].value = SumOf(lines, n)

\* C16: in every run that reaches the report, each holding's value is
\* amount * price, the reported total is the sum of the holdings' values, and
\* the report has exactly one line per configured asset, in list order and
\* whatever the asset's value, followed by the total line.
C16_ReportIsValuesAndTotal ==
    /\ pc \in {"send_report", "send_alert"} => ReportOk(report) /\ total = SumOf(report, Len(COINS))
    /\ \A k \in ReportsIn(logFile) : ReportOk(logFile[k].lines)
    /\ \A k \in ReportsIn(sent) : ReportOk(sent[k].lines)

\* a run over two assets that logged and sent its report, one holding worth
\* more than the base value and one worth less
C16_Witness ==
    /\ pc = "exited"
    /\ exitCode = <<0>>
    /\ Logged("report")
    /\ Notified("report")
    /\ Len(coins) = 2
    /\ JsGt(totalvalue(coins[1]), ASSET_BASE_VALUE)
    /\ JsGt(ASSET_BASE_VALUE, totalvalue(coins[2]))

\* C17: a top-level failure is never silent: the error is written to the log
\* whether or not the notifier took it, and when the log write throws, that
\* secondary failure is printed to the console; the exit code is 1 either way.
C17_FailureNeverSilent ==
    (pc = "exited" /\ err # NoErr) =>
        /\ exitCode = <<1>>
        /\ \/ /\ logFile # <<>>
              /\ Last(logFile).kind = "error"
              /\ Last(logFile).text = err.stack
              /\ consoleErr = <<>>
           \/ /\ ~Logged("error")
              /\ consoleErr = <<FsError>>

\* run() threw, the notifier refused the error message, and the error is in
\* the log
C17_Witness ==
    /\ pc = "exited"
    /\ err # NoErr
    /\ err.api = "ticker"
    /\ sent = <<>>
    /\ Logged("error")

OutcomeLines(symbol) ==
    {j \in DOMAIN logFile :
        logFile[j].kind \in OutcomeKinds /\ logFile[j].pair = symbol}

\* C18: at most one order is submitted per holding, every order is a MARKET
\* SELL of a configured asset against USDT, and every order has exactly one
\* outcome line in the log, the success line or the failure line (none only
\* if log() itself threw).
C18_OneOrderOneOutcome ==
    /\ \A a, b \in DOMAIN orders : a # b => orders[a].symbol # orders[b].symbol
    /\ \A k \in DOMAIN orders :
          /\ orders[k].side = "SELL"
          /\ orders[k].type = "MARKET"
          /\ \E i \in DOMAIN COINS : orders[k].symbol = <<COINS[i], "USDT">>
          /\ \/ Cardinality(OutcomeLines(orders[k].symbol)) = 1
             \/ /\ OutcomeLines(orders[k].symbol) = {}
                /\ pc = "trim_failed"
                /\ err = FsError

====
